---- MODULE Spec2Model ----
(***************************************************************************)
(* Model of code/run_capsule.py: the curation orchestrator.  One run of    *)
(* the script is a sequence of steps (argument parsing, job-count and      *)
(* parameter resolution, data-folder scan, query construction, mode        *)
(* resolution, recording discovery, one loop iteration per recording).     *)
(* Python strings that the code inspects (names, numeric arguments) are    *)
(* tuples of one-character strings; metric values and thresholds are       *)
(* hundredths (0.5 is 50).                                                  *)
(***************************************************************************)
EXTENDS Integers, Sequences, FiniteSets, TLC

VARIABLES
    pc,                     \* position of the script
    argv,                   \* command line: positionals and options as given
    environ,                \* value of CO_CPUS (None when unset)
    files,                  \* parameter files on disk: path -> content
    fs_data,                \* entries of data_folder
    fs_inner,               \* entries of the postprocessed root when it is not data_folder
    analyzers,              \* what loading each folder yields
    args,                   \* argparse namespace
    N_JOBS,
    processing_params,
    params_read,            \* parameter sources opened or parsed, in order
    global_job_kwargs,      \* spikeinterface global job kwargs
    curation_params,
    ecephys_sorted_folders,
    curation_query,
    pipeline_mode,
    mode,                   \* branch taken at lines 126-142
    postprocessed_base_folder,
    postprocessed_folders,
    idx,                    \* index of the next folder of the loop
    derived_name,           \* recording_name after lines 158-161
    recording_name,         \* recording_name after lines 162-163
    analyzer,
    load_result,            \* outcome of the last loop iteration
    default_qc,
    masks,                  \* qc_<name>.npy files written: name -> array
    prov,                   \* data_process_curation_<name>.json files written
    curation_notes

vars == <<pc, argv, environ, files, fs_data, fs_inner, analyzers, args, N_JOBS,
          processing_params, params_read, global_job_kwargs, curation_params,
          ecephys_sorted_folders, curation_query, pipeline_mode, mode,
          postprocessed_base_folder, postprocessed_folders, idx, derived_name,
          recording_name, analyzer, load_result, default_qc, masks, prov,
          curation_notes>>

----------------------------------------------------------------------------
(* Bounds *)

MaxEntries == 3     \* entries of data_folder
MaxInner == 2       \* entries of a postprocessed root other than data_folder
MaxUnits == 2       \* units of one analyzer
MaxParts == 2       \* fragments a generated recording name is made of

----------------------------------------------------------------------------
(* Python values *)

None == <<"None">>

\* truth value of a str-or-None
Truthy(x) == x # None /\ x # <<>>

\* Python's `a or b`
Or(a, b) == IF Truthy(a) THEN a ELSE b

----------------------------------------------------------------------------
(* str methods *)

StartsWith(s, sub) ==
    Len(sub) <= Len(s) /\ SubSeq(s, 1, Len(sub)) = sub

EndsWith(s, sub) ==
    Len(sub) <= Len(s) /\ SubSeq(s, Len(s) - Len(sub) + 1, Len(s)) = sub

\* `sub in s`
Contains(s, sub) ==
    \E i \in 0..(Len(s) - Len(sub)) : SubSeq(s, i + 1, i + Len(sub)) = sub

\* s.find(sub): lowest 0-based index of sub in s, -1 when absent
Find(s, sub) ==
    IF Contains(s, sub)
    THEN CHOOSE i \in 0..(Len(s) - Len(sub)) :
            /\ SubSeq(s, i + 1, i + Len(sub)) = sub
            /\ \A j \in 0..(i - 1) : SubSeq(s, j + 1, j + Len(sub)) # sub
    ELSE -1

\* s[:n] for n >= 0
SliceTo(s, n) == SubSeq(s, 1, IF n < Len(s) THEN n ELSE Len(s))

RECURSIVE Split(_, _)
\* s.split(c) for a one-character separator
Split(s, c) ==
    IF \A i \in 1..Len(s) : s[i] # c
    THEN <<s>>
    ELSE LET k == CHOOSE i \in 1..Len(s) :
                      s[i] = c /\ \A j \in 1..(i - 1) : s[j] # c
         IN <<SubSeq(s, 1, k - 1)>> \o Split(SubSeq(s, k + 1, Len(s)), c)

RECURSIVE Join(_, _)
\* c.join(parts)
Join(c, parts) ==
    IF parts = <<>> THEN <<>>
    ELSE IF Len(parts) = 1 THEN parts[1]
    ELSE parts[1] \o <<c>> \o Join(c, Tail(parts))

DigitVal(c) ==
    CASE c = "0" -> 0 [] c = "1" -> 1 [] c = "2" -> 2 [] c = "3" -> 3
      [] c = "4" -> 4 [] c = "5" -> 5 [] c = "6" -> 6 [] c = "7" -> 7
      [] c = "8" -> 8 [] c = "9" -> 9

RECURSIVE ParseNat(_)
ParseNat(s) ==
    IF s = <<>> THEN 0
    ELSE ParseNat(SubSeq(s, 1, Len(s) - 1)) * 10 + DigitVal(s[Len(s)])

RECURSIVE Pow10(_)
Pow10(n) == IF n = 0 THEN 1 ELSE 10 * Pow10(n - 1)

\* int(s) for a decimal literal with an optional sign
PyInt(s) ==
    [kind |-> "int",
     num |-> IF s[1] = "-" THEN 0 - ParseNat(Tail(s)) ELSE ParseNat(s),
     den |-> 1]

\* float(s) for a literal "0.<digits>", kept as a fraction
PyFloat(s) ==
    [kind |-> "float",
     num |-> ParseNat(SubSeq(s, 3, Len(s))),
     den |-> Pow10(Len(s) - 2)]

----------------------------------------------------------------------------
(* String literals of the script *)

s_zarr == <<".", "z", "a", "r", "r">>
s_ecephys == <<"e", "c", "e", "p", "h", "y", "s">>
s_behavior == <<"b", "e", "h", "a", "v", "i", "o", "r">>
s_sorted == <<"s", "o", "r", "t", "e", "d">>
s_postprocessed == <<"p", "o", "s", "t", "p", "r", "o", "c", "e", "s", "s", "e", "d">>
s_postprocessed_us == s_postprocessed \o <<"_">>
s_postprocessed_sorting == s_postprocessed \o <<"-">> \o <<"s", "o", "r", "t", "i", "n", "g">>
s_test_folder ==
    <<"p", "o", "s", "t", "p", "r", "o", "c", "e", "s", "s", "i", "n", "g", "_">>
    \o <<"p", "i", "p", "e", "l", "i", "n", "e", "_">>
    \o <<"o", "u", "t", "p", "u", "t", "_", "t", "e", "s", "t">>
s_params_json == <<"p", "a", "r", "a", "m", "s", ".", "j", "s", "o", "n">>
s_minus_one == <<"-", "1">>
s_zero_dot == <<"0", ".">>

----------------------------------------------------------------------------
(* JSON documents.  A JSON text is kept as a short token; json.load and    *)
(* json.loads map it to the document it denotes or fail on malformed text. *)

t_default == <<"{", "d", "}">>      \* content of the shipped params.json
t_pos == <<"{", "p", "}">>
t_file == <<"{", "f", "}">>
t_inline == <<"{", "i", "}">>
t_nocuration == <<"{", "j", "}">>   \* well-formed, no "curation" key
t_nopresence == <<"{", "q", "}">>   \* well-formed, no presence_ratio_threshold
t_malformed == <<"{">>

Curation(isi, pres, amp) ==
    ("isi_violations_ratio_threshold" :> isi)
    @@ ("presence_ratio_threshold" :> pres)
    @@ ("amplitude_cutoff_threshold" :> amp)

JobKwargs == ("chunk_duration" :> 1)

Doc(cur) == ("job_kwargs" :> JobKwargs) @@ ("curation" :> cur)

JsonLoads(text) ==
    CASE text = t_default -> [ok |-> TRUE, doc |-> Doc(Curation(50, 90, 10))]
      [] text = t_pos -> [ok |-> TRUE, doc |-> Doc(Curation(50, 80, 10))]
      [] text = t_file -> [ok |-> TRUE, doc |-> Doc(Curation(60, 90, 10))]
      [] text = t_inline -> [ok |-> TRUE, doc |-> Doc(Curation(50, 90, 20))]
      [] text = t_nocuration -> [ok |-> TRUE, doc |-> ("job_kwargs" :> JobKwargs)]
      [] text = t_nopresence ->
            [ok |-> TRUE,
             doc |-> Doc(("isi_violations_ratio_threshold" :> 50)
                         @@ ("amplitude_cutoff_threshold" :> 10))]
      [] OTHER -> [ok |-> FALSE, doc |-> <<>>]

----------------------------------------------------------------------------
(* argparse: lines 36-51 and parse_args at line 59 *)

DefaultNJobs == s_minus_one

\* members of a mutually exclusive group that the command line supplies
NJobsGiven(av) ==
    (IF Len(av.pos) >= 1 THEN {"static_n_jobs"} ELSE {})
    \cup (IF av.n_jobs # None THEN {"n_jobs"} ELSE {})

ParamsGiven(av) ==
    (IF Len(av.pos) >= 2 THEN {"static_params_file"} ELSE {})
    \cup (IF av.params_file # None THEN {"params_file"} ELSE {})
    \cup (IF av.params_str # None THEN {"params_str"} ELSE {})

\* parse_args rejects two members of one mutually exclusive group
UsageError(av) ==
    Cardinality(NJobsGiven(av)) > 1 \/ Cardinality(ParamsGiven(av)) > 1

Namespace(av) ==
    [static_n_jobs |-> IF Len(av.pos) >= 1 THEN av.pos[1] ELSE DefaultNJobs,
     n_jobs |-> IF av.n_jobs # None THEN av.n_jobs ELSE DefaultNJobs,
     static_params_file |-> IF Len(av.pos) >= 2 THEN av.pos[2] ELSE None,
     params_file |-> av.params_file,
     params_str |-> av.params_str]

----------------------------------------------------------------------------
(* Job count: lines 61-62 and 67-68 *)

ArgNJobs(a) == Or(a.static_n_jobs, a.n_jobs)

ConvertNJobs(n) == IF ~StartsWith(n, s_zero_dot) THEN PyInt(n) ELSE PyFloat(n)

ResolvedNJobs(a, co_cpus) ==
    IF co_cpus # None THEN PyInt(co_cpus) ELSE ConvertNJobs(ArgNJobs(a))

----------------------------------------------------------------------------
(* Parameter source: lines 63-64 and 70-78 *)

ParamsFile_positional_only(a) == a.static_params_file

ParamsFile(a) == Or(a.static_params_file, a.params_file)

\* the branch of lines 70-78 that is taken
ParamsSource(a) ==
    IF ParamsFile(a) # None THEN [kind |-> "file", ref |-> ParamsFile(a)]
    ELSE IF a.params_str # None THEN [kind |-> "str", ref |-> a.params_str]
    ELSE [kind |-> "file", ref |-> s_params_json]

\* open + json.load, or json.loads; ok is FALSE when the call raises
ReadSource(src, fls) ==
    IF src.kind = "file"
    THEN IF src.ref \in DOMAIN fls THEN JsonLoads(fls[src.ref])
         ELSE [ok |-> FALSE, doc |-> <<>>]
    ELSE JsonLoads(src.ref)

----------------------------------------------------------------------------
(* Folder scan and curation query: lines 88-92 and 119-141 *)

QualifiesAsset(p) ==
    \/ p.is_dir /\ Contains(p.name, s_ecephys)
    \/ Contains(p.name, s_behavior) /\ Contains(p.name, s_sorted)

Clause(col, op, thr) == [col |-> col, op |-> op, thr |-> thr]

DefaultQuery_no_presence(cp) ==
    <<Clause("isi_violations_ratio", "<", cp["isi_violations_ratio_threshold"]),
      Clause("amplitude_cutoff", "<", cp["amplitude_cutoff_threshold"])>>

\* the query of line 123 (and 141): clauses joined by `and`
DefaultQuery(cp) ==
    <<Clause("isi_violations_ratio", "<", cp["isi_violations_ratio_threshold"]),
      Clause("presence_ratio", ">", cp["presence_ratio_threshold"]),
      Clause("amplitude_cutoff", "<", cp["amplitude_cutoff_threshold"])>>

\* the query of lines 136-138
TestQuery(cp) ==
    <<Clause("isi_violations_ratio", "<", cp["isi_violations_ratio_threshold"]),
      Clause("amplitude_cutoff", "<", cp["amplitude_cutoff_threshold"])>>

\* `del d[key]`
DelKey(d, key) == [k \in DOMAIN d \ {key} |-> d[k]]

\* `d[key] = value`
SetKey(d, key, value) ==
    [k \in DOMAIN d \cup {key} |-> IF k = key THEN value ELSE d[k]]

AssertOneAsset_unchecked(folders) == TRUE

\* the assertion of line 128
AssertOneAsset(folders) == Len(folders) = 1

PipelineModeAfter_always(branch) == TRUE

\* value of pipeline_mode after lines 125-142
PipelineModeAfter(branch) == branch # "capsule"

DataRoot == [name |-> <<".", ".", "/", "d", "a", "t", "a">>, is_dir |-> TRUE]

TestFolderEntry == [name |-> s_test_folder, is_dir |-> TRUE]

----------------------------------------------------------------------------
(* Recording discovery and names: lines 147-164 *)

Qualifies_any_entry(p, pm) ==
    IF pm THEN Contains(p.name, s_postprocessed_us)
    ELSE ~Contains(p.name, s_postprocessed_sorting)

Qualifies(p, pm) ==
    IF pm THEN Contains(p.name, s_postprocessed_us)
    ELSE ~Contains(p.name, s_postprocessed_sorting) /\ p.is_dir

DerivedName(p, pm) ==
    IF pm THEN Join("_", Tail(Split(p.name, "_"))) ELSE p.name

StripZarr(name) ==
    IF EndsWith(name, s_zarr) THEN SliceTo(name, Find(name, s_zarr)) ELSE name

\* all orders in which iterdir can yield the members of S
Perms(S) ==
    {f \in [1..Cardinality(S) -> S] :
        \A i, j \in 1..Cardinality(S) : i # j => f[i] # f[j]}

----------------------------------------------------------------------------
(* Quality metrics, query evaluation and mask: lines 177-184 *)

\* a metric value: a number of hundredths, or NaN
Num(v) == [nan |-> FALSE, v |-> v]
NaN == [nan |-> TRUE, v |-> 0]

RowValue(row, col) ==
    CASE col = "isi_violations_ratio" -> row.isi
      [] col = "presence_ratio" -> row.pres
      [] col = "amplitude_cutoff" -> row.amp

\* a comparison with NaN is false
EvalClause(row, c) ==
    LET x == RowValue(row, c.col)
    IN /\ ~x.nan
       /\ IF c.op = "<" THEN x.v < c.thr ELSE x.v > c.thr

\* qm.query(curation_query).index.values
QueryIndex(qm, q) ==
    {u \in DOMAIN qm : \A i \in 1..Len(q) : EvalClause(qm[u], q[i])}

RECURSIVE CuratedOnly(_, _)
CuratedOnly(unit_ids, curated) ==
    IF unit_ids = <<>> THEN <<>>
    ELSE (IF Head(unit_ids) \in curated THEN <<TRUE>> ELSE <<>>)
         \o CuratedOnly(Tail(unit_ids), curated)

BuildMask_curated_only(unit_ids, curated) == CuratedOnly(unit_ids, curated)

\* line 182
BuildMask(unit_ids, curated) ==
    [i \in 1..Len(unit_ids) |-> unit_ids[i] \in curated]

RECURSIVE CountTrue(_)
CountTrue(m) ==
    IF m = <<>> THEN 0
    ELSE (IF Head(m) THEN 1 ELSE 0) + CountTrue(Tail(m))

----------------------------------------------------------------------------
(* Steps of the script *)

Unset == [kind |-> "unset", num |-> 0, den |-> 1]
NoAnalyzer == [loads |-> FALSE, has_qm |-> FALSE, unit_ids |-> <<>>, qm |-> <<>>]

\* line 59: parse_args exits with status 2 on a usage error
ParseArgs ==
    /\ pc = "start"
    /\ IF UsageError(argv)
       THEN /\ pc' = "usage_error"
            /\ UNCHANGED args
       ELSE /\ pc' = "resolve"
            /\ args' = Namespace(argv)
    /\ UNCHANGED <<argv, environ, files, fs_data, fs_inner, analyzers, N_JOBS,
                   processing_params, params_read, global_job_kwargs,
                   curation_params, ecephys_sorted_folders, curation_query,
                   pipeline_mode, mode, postprocessed_base_folder,
                   postprocessed_folders, idx, derived_name, recording_name,
                   analyzer, load_result, default_qc, masks, prov, curation_notes>>

\* lines 61-62 and 66-68
ResolveNJobs ==
    /\ pc = "resolve"
    /\ N_JOBS' = ResolvedNJobs(args, environ)
    /\ pc' = "params"
    /\ UNCHANGED <<argv, environ, files, fs_data, fs_inner, analyzers, args,
                   processing_params, params_read, global_job_kwargs,
                   curation_params, ecephys_sorted_folders, curation_query,
                   pipeline_mode, mode, postprocessed_base_folder,
                   postprocessed_folders, idx, derived_name, recording_name,
                   analyzer, load_result, default_qc, masks, prov, curation_notes>>

\* lines 63-64 and 70-86: a missing file, malformed JSON or a missing
\* top-level key raises and ends the run
LoadParams ==
    /\ pc = "params"
    /\ LET src == ParamsSource(args)
           res == ReadSource(src, files)
       IN /\ params_read' = Append(params_read, src)
          /\ IF res.ok /\ {"job_kwargs", "curation"} \subseteq DOMAIN res.doc
             THEN /\ processing_params' = res.doc
                  /\ global_job_kwargs' = SetKey(res.doc["job_kwargs"], "n_jobs", N_JOBS)
                  /\ curation_params' = res.doc["curation"]
                  /\ pc' = "scan"
             ELSE /\ processing_params' = IF res.ok THEN res.doc ELSE processing_params
                  /\ UNCHANGED <<global_job_kwargs, curation_params>>
                  /\ pc' = "fatal_config"
    /\ UNCHANGED <<argv, environ, files, fs_data, fs_inner, analyzers, args, N_JOBS,
                   ecephys_sorted_folders, curation_query,
                   pipeline_mode, mode, postprocessed_base_folder,
                   postprocessed_folders, idx, derived_name, recording_name,
                   analyzer, load_result, default_qc, masks, prov, curation_notes>>

\* lines 88-92
ScanDataFolder ==
    /\ pc = "scan"
    /\ ecephys_sorted_folders' \in Perms({p \in fs_data : QualifiesAsset(p)})
    /\ pc' = "query"
    /\ UNCHANGED <<argv, environ, files, fs_data, fs_inner, analyzers, args, N_JOBS,
                   processing_params, params_read, global_job_kwargs,
                   curation_params, curation_query,
                   pipeline_mode, mode, postprocessed_base_folder,
                   postprocessed_folders, idx, derived_name, recording_name,
                   analyzer, load_result, default_qc, masks, prov, curation_notes>>

\* lines 119-123: a missing threshold key raises KeyError
BuildQuery ==
    /\ pc = "query"
    /\ IF {"isi_violations_ratio_threshold", "presence_ratio_threshold",
           "amplitude_cutoff_threshold"} \subseteq DOMAIN curation_params
       THEN /\ curation_query' = DefaultQuery(curation_params)
            /\ pc' = "mode"
       ELSE /\ UNCHANGED curation_query
            /\ pc' = "fatal_config"
    /\ UNCHANGED <<argv, environ, files, fs_data, fs_inner, analyzers, args, N_JOBS,
                   processing_params, params_read, global_job_kwargs,
                   curation_params, ecephys_sorted_folders,
                   pipeline_mode, mode, postprocessed_base_folder,
                   postprocessed_folders, idx, derived_name, recording_name,
                   analyzer, load_result, default_qc, masks, prov, curation_notes>>

\* the branch of lines 126-142
Branch ==
    IF Len(ecephys_sorted_folders) > 0 THEN "capsule"
    ELSE IF TestFolderEntry \in fs_data THEN "test"
    ELSE "pipeline"

\* lines 125-145
ResolveMode ==
    /\ pc = "mode"
    /\ IF Branch = "capsule" /\ ~AssertOneAsset(ecephys_sorted_folders)
       THEN /\ pc' = "fatal_config"
            /\ UNCHANGED <<mode, pipeline_mode, postprocessed_base_folder,
                           curation_query, curation_params, curation_notes>>
       ELSE /\ pc' = "discover"
            /\ mode' = Branch
            /\ pipeline_mode' = PipelineModeAfter(Branch)
            /\ postprocessed_base_folder' =
                  CASE Branch = "capsule" ->
                          [kind |-> "asset", folder |-> ecephys_sorted_folders[1]]
                    [] Branch = "test" -> [kind |-> "test", folder |-> TestFolderEntry]
                    [] OTHER -> [kind |-> "data", folder |-> DataRoot]
            /\ curation_query' =
                  CASE Branch = "capsule" -> curation_query
                    [] Branch = "test" -> TestQuery(curation_params)
                    [] OTHER -> DefaultQuery(curation_params)
            /\ curation_params' =
                  IF Branch = "test"
                  THEN DelKey(curation_params, "presence_ratio_threshold")
                  ELSE curation_params
            /\ curation_notes' = Append(curation_notes, <<"query", curation_query'>>)
    /\ UNCHANGED <<argv, environ, files, fs_data, fs_inner, analyzers, args, N_JOBS,
                   processing_params, params_read, global_job_kwargs,
                   ecephys_sorted_folders,
                   postprocessed_folders, idx, derived_name, recording_name,
                   analyzer, load_result, default_qc, masks, prov>>

\* postprocessed_base_folder.iterdir()
IterDir(base) == IF base.kind = "data" THEN fs_data ELSE fs_inner

\* lines 147-154: iterdir raises when the root is not a directory
Discover ==
    /\ pc = "discover"
    /\ IF postprocessed_base_folder.folder.is_dir
       THEN /\ postprocessed_folders' \in
                  Perms({p \in IterDir(postprocessed_base_folder) :
                            Qualifies(p, pipeline_mode)})
            /\ idx' = 1
            /\ pc' = "loop"
       ELSE /\ UNCHANGED <<postprocessed_folders, idx>>
            /\ pc' = "crashed"
    /\ UNCHANGED <<argv, environ, files, fs_data, fs_inner, analyzers, args, N_JOBS,
                   processing_params, params_read, global_job_kwargs,
                   curation_params, ecephys_sorted_folders, curation_query,
                   pipeline_mode, mode, postprocessed_base_folder,
                   derived_name, recording_name,
                   analyzer, load_result, default_qc, masks, prov, curation_notes>>

\* lines 155-210: one iteration of the loop over postprocessed_folders
ProcessRecording ==
    /\ pc = "loop"
    /\ idx <= Len(postprocessed_folders)
    /\ LET folder == postprocessed_folders[idx]
           name == StripZarr(DerivedName(folder, pipeline_mode))
           an == analyzers[folder.name]
           qc == BuildMask(an.unit_ids, QueryIndex(an.qm, curation_query))
           n_passing == CountTrue(qc)
           n_units == Len(an.unit_ids)
           notes == Append(curation_notes, <<"passing", n_passing, n_units>>)
           params == SetKey(curation_params, "recording_name", name)
       IN /\ derived_name' = DerivedName(folder, pipeline_mode)
          /\ recording_name' = name
          /\ IF ~an.loads
             THEN \* lines 169-174: mock result file, continue
                  /\ masks' = SetKey(masks, name, <<>>)
                  /\ load_result' = "failed"
                  /\ idx' = idx + 1
                  /\ pc' = "loop"
                  /\ UNCHANGED <<analyzer, default_qc, prov, curation_notes,
                                 curation_params>>
             ELSE IF ~an.has_qm
             THEN \* line 177: get_extension returns None, .get_data() raises
                  /\ analyzer' = an
                  /\ load_result' = "raised"
                  /\ pc' = "crashed"
                  /\ UNCHANGED <<idx, default_qc, masks, prov, curation_notes,
                                 curation_params>>
             ELSE /\ analyzer' = an
                  /\ default_qc' = qc
                  /\ curation_notes' = notes
                  /\ masks' = SetKey(masks, name, qc)
                  /\ curation_params' = params
                  /\ prov' = IF pipeline_mode
                             THEN SetKey(prov, name,
                                         [parameters |-> params,
                                          outputs |-> [total_units |-> n_units,
                                                       passing_qc |-> n_passing,
                                                       failing_qc |-> n_units - n_passing],
                                          notes |-> notes])
                             ELSE prov
                  /\ load_result' = "ok"
                  /\ idx' = idx + 1
                  /\ pc' = "loop"
    /\ UNCHANGED <<argv, environ, files, fs_data, fs_inner, analyzers, args, N_JOBS,
                   processing_params, params_read, global_job_kwargs,
                   ecephys_sorted_folders, curation_query,
                   pipeline_mode, mode, postprocessed_base_folder,
                   postprocessed_folders>>

\* lines 212-214: the loop is exhausted and the script ends
Finish ==
    /\ pc = "loop"
    /\ idx > Len(postprocessed_folders)
    /\ pc' = "done"
    /\ UNCHANGED <<argv, environ, files, fs_data, fs_inner, analyzers, args, N_JOBS,
                   processing_params, params_read, global_job_kwargs,
                   curation_params, ecephys_sorted_folders, curation_query,
                   pipeline_mode, mode, postprocessed_base_folder,
                   postprocessed_folders, idx, derived_name, recording_name,
                   analyzer, load_result, default_qc, masks, prov, curation_notes>>

Next ==
    \/ ParseArgs
    \/ ResolveNJobs
    \/ LoadParams
    \/ ScanDataFolder
    \/ BuildQuery
    \/ ResolveMode
    \/ Discover
    \/ ProcessRecording
    \/ Finish

----------------------------------------------------------------------------
(* Inputs of a run: command line, environment and file system.  Each family *)
(* below varies one part of the input over a bounded set and keeps the rest *)
(* at a plain pipeline-mode run.                                            *)

Dir(n) == [name |-> n, is_dir |-> TRUE]
File(n) == [name |-> n, is_dir |-> FALSE]

SubsetsUpTo(S, n) == {X \in SUBSET S : Cardinality(X) <= n}

pp_a == Dir(s_postprocessed_us \o <<"a">>)
pp_b_zarr == Dir(s_postprocessed_us \o <<"b">> \o s_zarr)
x_pp_c == File(<<"x", "_">> \o s_postprocessed_us \o <<"c">>)
asset_ecephys == Dir(s_ecephys \o <<"_", "s">>)
asset_behavior == Dir(s_behavior \o <<"_">> \o s_sorted)
file_ecephys == File(s_ecephys \o <<".", "j">>)
file_behavior == File(s_sorted \o <<"_">> \o s_behavior)

DataCatalog ==
    {asset_ecephys, asset_behavior, file_ecephys, file_behavior,
     TestFolderEntry, pp_a, pp_b_zarr, x_pp_c}

InnerCatalog ==
    {pp_a, pp_b_zarr, Dir(<<"r">>), Dir(<<"q">> \o s_zarr),
     Dir(s_postprocessed_sorting), File(<<"n">>)}

p_pos == <<"p", ".", "j", "s", "o", "n">>
p_file == <<"f", ".", "j", "s", "o", "n">>

DefaultArgv == [pos |-> <<>>, n_jobs |-> None, params_file |-> None, params_str |-> None]

DefaultFiles == (s_params_json :> t_default) @@ (p_pos :> t_pos) @@ (p_file :> t_file)

PassRow == [isi |-> Num(20), pres |-> Num(95), amp |-> Num(5)]

OkAnalyzer(rows) ==
    [loads |-> TRUE, has_qm |-> TRUE,
     unit_ids |-> [i \in 1..Len(rows) |-> i], qm |-> rows]

FailedLoad == NoAnalyzer

\* loads, but the quality_metrics extension is absent
NoMetrics == [loads |-> TRUE, has_qm |-> FALSE, unit_ids |-> <<1>>, qm |-> <<>>]

\* what loading an entry can yield: a plain file never loads
Outcomes(p) ==
    IF p.is_dir THEN {FailedLoad, NoMetrics, OkAnalyzer(<<PassRow>>)}
    ELSE {FailedLoad}

\* the entries the loop can visit, given the two listings
Visited(data, inner) ==
    LET assets == {p \in data : QualifiesAsset(p)}
    IN IF assets # {}
       THEN {p \in inner : Qualifies(p, FALSE)}
       ELSE IF TestFolderEntry \in data
       THEN {p \in inner : Qualifies(p, TRUE)}
       ELSE {p \in data : Qualifies(p, TRUE)}

\* a second listing exists only when the postprocessed root is another folder
InnerListings(data) ==
    LET assets == {p \in data : QualifiesAsset(p)}
    IN IF \/ Cardinality(assets) = 1 /\ \A p \in assets : p.is_dir
          \/ assets = {} /\ TestFolderEntry \in data
       THEN SubsetsUpTo(InnerCatalog, MaxInner)
       ELSE {{}}

AnalyzerMaps(S, outcomes(_)) ==
    {f \in [{p.name : p \in S} -> UNION {outcomes(p) : p \in S}] :
        \A p \in S : f[p.name] \in outcomes(p)}

World(av, env, fls, data, inner, ans) ==
    [argv |-> av, environ |-> env, files |-> fls,
     fs_data |-> data, fs_inner |-> inner, analyzers |-> ans]

\* folder layouts
DiscoveryWorlds ==
    {World(DefaultArgv, None, DefaultFiles, data, inner, ans) :
        <<data, inner, ans>> \in
            UNION {UNION {{<<d, i, a>> : a \in AnalyzerMaps(Visited(d, i), Outcomes)} :
                             i \in InnerListings(d)} :
                      d \in SubsetsUpTo(DataCatalog, MaxEntries)}}

MetricRows ==
    {[isi |-> i, pres |-> p, amp |-> a] :
        i \in {Num(20), Num(50), Num(60)},
        p \in {Num(95), Num(90), NaN},
        a \in {Num(5), Num(10), NaN}}

Tables == UNION {[1..n -> MetricRows] : n \in 0..MaxUnits}

\* metrics tables, one recording, in each mode
CurationWorlds ==
    {World(DefaultArgv, None, DefaultFiles, l.data, l.inner,
           (l.rec.name :> OkAnalyzer(rows))) :
        l \in {[data |-> {pp_a}, inner |-> {}, rec |-> pp_a],
               [data |-> {asset_ecephys}, inner |-> {Dir(<<"r">>)}, rec |-> Dir(<<"r">>)],
               [data |-> {TestFolderEntry}, inner |-> {pp_a}, rec |-> pp_a]},
        rows \in Tables}

NJobsTexts == {<<"4">>, <<"1", "2">>, <<"0", ".", "5">>, s_minus_one}

Positionals ==
    {<<>>} \cup {<<n>> : n \in NJobsTexts} \cup {<<n, p_pos>> : n \in {<<"4">>}}

ParamFileSets ==
    {DefaultFiles}
    \cup {[k \in DOMAIN DefaultFiles \ {gone} |-> DefaultFiles[k]] :
             gone \in DOMAIN DefaultFiles}
    \cup {[k \in DOMAIN DefaultFiles |-> IF k = bad THEN t ELSE DefaultFiles[k]] :
             bad \in DOMAIN DefaultFiles,
             t \in {t_malformed, t_nocuration, t_nopresence}}

\* command lines, CO_CPUS and parameter files
ArgWorlds ==
    {World([pos |-> ps, n_jobs |-> nj, params_file |-> pf, params_str |-> pstr],
           env, fls, {pp_a}, {}, (pp_a.name :> OkAnalyzer(<<PassRow>>))) :
        ps \in Positionals,
        nj \in {None, <<"2">>, <<"0", ".", "2", "5">>},
        pf \in {None, p_file},
        pstr \in {None, t_inline, t_malformed},
        env \in {None, <<"8">>},
        fls \in ParamFileSets}

NameFragments == {<<"a">>, s_zarr, <<"a">> \o s_zarr, <<"_", "b">>}

RECURSIVE NamesOf(_)
NamesOf(n) ==
    IF n = 0 THEN {<<>>}
    ELSE NamesOf(n - 1) \cup {x \o f : x \in NamesOf(n - 1), f \in NameFragments}

\* recording names
NameWorlds ==
    {World(DefaultArgv, None, DefaultFiles,
           {Dir(s_postprocessed_us \o n)}, {}, (s_postprocessed_us \o n :> an)) :
        n \in NamesOf(MaxParts) \ {<<>>},
        an \in {FailedLoad, OkAnalyzer(<<PassRow>>)}}

Worlds == DiscoveryWorlds \cup CurationWorlds \cup ArgWorlds \cup NameWorlds

Init ==
    /\ \E w \in Worlds :
          /\ argv = w.argv
          /\ environ = w.environ
          /\ files = w.files
          /\ fs_data = w.fs_data
          /\ fs_inner = w.fs_inner
          /\ analyzers = w.analyzers
    /\ pc = "start"
    /\ args = Namespace(DefaultArgv)
    /\ N_JOBS = Unset
    /\ processing_params = <<>>
    /\ params_read = <<>>
    /\ global_job_kwargs = <<>>
    /\ curation_params = <<>>
    /\ ecephys_sorted_folders = <<>>
    /\ curation_query = <<>>
    /\ pipeline_mode = TRUE
    /\ mode = "unresolved"
    /\ postprocessed_base_folder = [kind |-> "data", folder |-> DataRoot]
    /\ postprocessed_folders = <<>>
    /\ idx = 1
    /\ derived_name = <<>>
    /\ recording_name = <<>>
    /\ analyzer = NoAnalyzer
    /\ load_result = "none"
    /\ default_qc = <<>>
    /\ masks = <<>>
    /\ prov = <<>>
    /\ curation_notes = <<>>

Spec == Init /\ [][Next]_vars

----------------------------------------------------------------------------
(* Properties *)

Curating == pc \in {"loop", "done"}

\* the folder of the last completed loop iteration
LastFolder == postprocessed_folders[idx - 1]

Below(x, thr) == ~x.nan /\ x.v < thr
Above(x, thr) == ~x.nan /\ x.v > thr

\* C1: after a recording whose analyzer loaded is curated, the mask entry of
\* every unit of the analyzer's ordering is true exactly when the unit's row
\* has isi_violations_ratio and amplitude_cutoff below their thresholds and,
\* outside test mode, presence_ratio above its threshold.
C1_MaskMatchesFilter ==
    (Curating /\ load_result = "ok") =>
        \A i \in 1..Len(analyzer.unit_ids) :
            LET row == analyzer.qm[analyzer.unit_ids[i]]
            IN masks[recording_name][i] =
                  (/\ Below(row.isi, curation_params["isi_violations_ratio_threshold"])
                   /\ Below(row.amp, curation_params["amplitude_cutoff_threshold"])
                   /\ mode # "test" =>
                         Above(row.pres, curation_params["presence_ratio_threshold"]))

C1_Witness ==
    /\ pc = "done" /\ load_result = "ok" /\ mode = "test"
    /\ Len(analyzer.unit_ids) = 2
    /\ analyzer.qm[1].pres = Num(90)
    /\ masks[recording_name] = <<TRUE, FALSE>>

\* C2: once the analyzer of a discovered recording has failed to load, that
\* recording has an empty mask file and the run does not abort while later
\* recordings are processed.
C2_SkipAndContinue ==
    \A j \in 1..Len(postprocessed_folders) :
        (pc \in {"loop", "done", "crashed"} /\ j < idx
         /\ ~analyzers[postprocessed_folders[j].name].loads)
        => pc # "crashed"

C4_NJobsPrecedence ==
    pc \notin {"start", "usage_error", "resolve"} =>
        N_JOBS = IF environ # None THEN PyInt(environ)
                 ELSE IF argv.n_jobs # None THEN ConvertNJobs(argv.n_jobs)
                 ELSE IF Len(argv.pos) >= 1 THEN ConvertNJobs(argv.pos[1])
                 ELSE PyInt(s_minus_one)

\* the source the precedence of C5 selects from the command line
C5_Selected ==
    IF argv.params_file # None THEN [kind |-> "file", ref |-> argv.params_file]
    ELSE IF Len(argv.pos) >= 2 THEN [kind |-> "file", ref |-> argv.pos[2]]
    ELSE IF argv.params_str # None THEN [kind |-> "str", ref |-> argv.params_str]
    ELSE [kind |-> "file", ref |-> s_params_json]

C5_Content ==
    IF C5_Selected.kind = "str" THEN C5_Selected.ref
    ELSE IF C5_Selected.ref \in DOMAIN files THEN files[C5_Selected.ref]
    ELSE t_malformed

\* C5: the only parameter source read is the one selected by --params-file,
\* else the positional path, else --params-str, else params.json, and the
\* loaded parameters are that source's document.
C5_ParamsPrecedence ==
    pc \notin {"start", "usage_error", "resolve", "params"} =>
        /\ params_read = <<C5_Selected>>
        /\ pc # "fatal_config" => processing_params = JsonLoads(C5_Content).doc

C5_Witness ==
    /\ pc = "done"
    /\ argv.params_file = p_file
    /\ params_read = <<[kind |-> "file", ref |-> p_file]>>
    /\ processing_params = Doc(Curation(60, 90, 10))

\* C6: only directories of the input directory are counted as attached
\* sorted assets.
C6_OnlyDirectoriesQualify ==
    pc \notin {"start", "usage_error", "resolve", "params", "scan"} =>
        \A i \in 1..Len(ecephys_sorted_folders) : ecephys_sorted_folders[i].is_dir

\* C7: the mask written for a recording whose analyzer loaded has one entry
\* per unit of the analyzer, none when there is no unit.
C7_MaskLength ==
    (Curating /\ load_result = "ok") =>
        /\ Len(masks[recording_name]) = Len(analyzer.unit_ids)
        /\ Len(default_qc) = Len(analyzer.unit_ids)

C7_Witness ==
    /\ pc = "done" /\ load_result = "ok"
    /\ Len(analyzer.unit_ids) = 2
    /\ masks[recording_name] = <<FALSE, TRUE>>

\* the parameters document cannot be used: unreadable, malformed, or without
\* a required key
C8_BadParams ==
    LET res == JsonLoads(C5_Content)
    IN \/ ~res.ok
       \/ ~({"job_kwargs", "curation"} \subseteq DOMAIN res.doc)
       \/ ~({"isi_violations_ratio_threshold", "presence_ratio_threshold",
             "amplitude_cutoff_threshold"} \subseteq DOMAIN res.doc["curation"])

C8_TwoAssets ==
    Cardinality({p \in fs_data :
                    /\ p.is_dir
                    /\ \/ Contains(p.name, s_ecephys)
                       \/ Contains(p.name, s_behavior) /\ Contains(p.name, s_sorted)}) > 1

\* C8: a run whose parameters cannot be used or that has more than one
\* attached sorted asset never reaches recording discovery, and at the abort
\* no mask file and no provenance file has been written.
C8_ConfigErrorBeforeOutputs ==
    /\ pc = "fatal_config" => masks = <<>> /\ prov = <<>>
    /\ (C8_BadParams \/ C8_TwoAssets) =>
          /\ pc \notin {"discover", "loop", "done", "crashed"}
          /\ masks = <<>> /\ prov = <<>>

C8_Witness ==
    pc = "fatal_config" /\ Len(ecephys_sorted_folders) = 2 /\ masks = <<>> /\ prov = <<>>

\* name with its first "_"-separated token dropped
C9_DropFirstToken(n) ==
    IF \A i \in 1..Len(n) : n[i] # "_" THEN <<>>
    ELSE LET k == CHOOSE i \in 1..Len(n) : n[i] = "_" /\ \A j \in 1..(i - 1) : n[j] # "_"
         IN SubSeq(n, k + 1, Len(n))

C9_Discovered == {postprocessed_folders[i] : i \in 1..Len(postprocessed_folders)}

\* C9 as stated: single-asset and test mode take every entry without
\* "postprocessed-sorting" under its own name, pipeline mode takes the entries
\* with the "postprocessed_" marker.
C9_DiscoveryByMode ==
    Curating =>
        IF mode \in {"capsule", "test"}
        THEN /\ C9_Discovered =
                   {p \in fs_inner : ~Contains(p.name, s_postprocessed_sorting)}
             /\ idx > 1 => derived_name = LastFolder.name
        ELSE /\ C9_Discovered = {p \in fs_data : Contains(p.name, s_postprocessed_us)}
             /\ idx > 1 => derived_name = C9_DropFirstToken(LastFolder.name)

\* C9: single-asset mode takes every directory of the postprocessed root
\* without "postprocessed-sorting" in its name, under its own name; pipeline
\* mode and test mode take every entry with the "postprocessed_" marker, named
\* by the entry name with its first "_"-separated token dropped.
C9_DiscoveryByPipelineFlag ==
    Curating =>
        IF mode = "capsule"
        THEN /\ C9_Discovered =
                   {p \in fs_inner :
                       p.is_dir /\ ~Contains(p.name, s_postprocessed_sorting)}
             /\ idx > 1 => derived_name = LastFolder.name
        ELSE /\ C9_Discovered =
                   {p \in (IF mode = "test" THEN fs_inner ELSE fs_data) :
                       Contains(p.name, s_postprocessed_us)}
             /\ idx > 1 => derived_name = C9_DropFirstToken(LastFolder.name)

C9_Witness ==
    /\ pc = "done" /\ mode = "test"
    /\ Dir(<<"r">>) \in fs_inner
    /\ postprocessed_folders = <<pp_a>>
    /\ derived_name = <<"a">>

\* C10: a recording name ending in ".zarr" loses exactly that trailing
\* suffix, any other name is unchanged.
C10_TrailingZarrStripped ==
    (Curating /\ idx > 1) =>
        recording_name =
            IF EndsWith(derived_name, s_zarr)
            THEN SubSeq(derived_name, 1, Len(derived_name) - Len(s_zarr))
            ELSE derived_name

====
